---- MODULE Spec2Model ----
(***************************************************************************)
(* A model of school_manager.py: the SchoolManager registry (students,     *)
(* teachers, courses, one shared id counter) and its JSON persistence.     *)
(*                                                                         *)
(* A Python dict is a sequence of entries [k, v] in insertion order with   *)
(* distinct keys.  An Optional[int] is <<>> (None) or <<n>>.  A file is     *)
(* absent, unparsable text, or the JSON value json.load returns for it;    *)
(* JSON object keys of the three collections are strings, modelled as      *)
(* sequences of characters, so that str(int) and int(str) are real         *)
(* conversions.                                                            *)
(***************************************************************************)
EXTENDS Integers, Sequences, FiniteSets, TLC

VARIABLES students, teachers, courses, next_id, file, last, returned,
          persisted, prior, origin, enroll_log, pc, out

vars == <<students, teachers, courses, next_id, file, last, returned,
          persisted, prior, origin, enroll_log, pc, out>>

----------------------------------------------------------------------------
(* Bounds and input sets *)

\* create calls are taken while the counter is at most MaxId
MaxId == 3

\* name and age are stored unread: one pair, an empty name and a negative age
StudentInputs == {<<"", -1>>}
TeacherInputs == {<<"Bob", "Math">>}
CourseNames == {"Algebra"}
\* ids passed to add_course / enroll: 0 is never a key, and every other one is
\* a key of at most one collection
IdArgs == 0 .. MaxId

None == <<>>
Some(x) == <<x>>
TeacherArgs == {None} \cup {Some(t) : t \in IdArgs}

Range(s) == {s[i] : i \in DOMAIN s}

----------------------------------------------------------------------------
(* Python dict: insertion-ordered entries with distinct keys *)

Keys(d) == {d[i].k : i \in DOMAIN d}

HasKey(d, k) == \E i \in DOMAIN d : d[i].k = k

Get(d, k) == d[CHOOSE i \in DOMAIN d : d[i].k = k].v

\* d[k] = v: an existing key keeps its place, a new key goes last
Put(d, k, v) ==
    IF HasKey(d, k)
    THEN [i \in DOMAIN d |-> IF d[i].k = k THEN [k |-> k, v |-> v] ELSE d[i]]
    ELSE Append(d, [k |-> k, v |-> v])

----------------------------------------------------------------------------
(* The dataclasses *)

Student(id, name, age) == [id |-> id, name |-> name, age |-> age]

Teacher(id, name, subject) == [id |-> id, name |-> name, subject |-> subject]

Course(id, name, teacher_id, studs) ==
    [id |-> id, name |-> name, teacher_id |-> teacher_id, students |-> studs]

----------------------------------------------------------------------------
(* SchoolManager: the operations as functions of the registry m            *)
(* = [students, teachers, courses, next_id], each returning the registry   *)
(* after the call, the returned value (None when there is none) and the    *)
(* message of the exception raised ("" when none).                         *)

NoError == ""
TeacherNotFound == "Teacher id not found"
StudentNotFound == "Student id not found"
CourseNotFound == "Course id not found"

Result(m, ret, err) == [mgr |-> m, ret |-> ret, err |-> err]

\* the counter starts at 0
EmptyMgr_zero == [students |-> <<>>, teachers |-> <<>>, courses |-> <<>>, next_id |-> 0]

\* __init__ before load()
EmptyMgr == [students |-> <<>>, teachers |-> <<>>, courses |-> <<>>, next_id |-> 1]

\* the counter is read and never advanced
gen_id_noinc(m) == [nid |-> m.next_id, mgr |-> m]

\* the counter is advanced before it is read
gen_id_preinc(m) ==
    [nid |-> m.next_id + 1, mgr |-> [m EXCEPT !.next_id = m.next_id + 1]]

gen_id(m) == [nid |-> m.next_id, mgr |-> [m EXCEPT !.next_id = m.next_id + 1]]

\* the dict is rebound to a new one holding only the new student
add_student_rebinds(m, name, age) ==
    LET g == gen_id(m)
        sid == g.nid
    IN Result([g.mgr EXCEPT !.students = <<[k |-> sid, v |-> Student(sid, name, age)]>>],
              Some(sid), NoError)

add_student(m, name, age) ==
    LET g == gen_id(m)
        sid == g.nid
    IN Result([g.mgr EXCEPT !.students = Put(g.mgr.students, sid, Student(sid, name, age))],
              Some(sid), NoError)

\* the teacher is stored in self.students
add_teacher_into_students(m, name, subject) ==
    LET g == gen_id(m)
        tid == g.nid
    IN Result([g.mgr EXCEPT !.students = Put(g.mgr.students, tid, Teacher(tid, name, subject))],
              Some(tid), NoError)

add_teacher(m, name, subject) ==
    LET g == gen_id(m)
        tid == g.nid
    IN Result([g.mgr EXCEPT !.teachers = Put(g.mgr.teachers, tid, Teacher(tid, name, subject))],
              Some(tid), NoError)

\* the id is allocated before the teacher is looked up
add_course_alloc_first(m, name, teacher_id) ==
    LET g == gen_id(m)
        cid == g.nid
    IN IF teacher_id # None /\ ~HasKey(m.teachers, teacher_id[1])
       THEN Result(g.mgr, None, TeacherNotFound)
       ELSE Result([g.mgr EXCEPT !.courses = Put(g.mgr.courses, cid, Course(cid, name, teacher_id, <<>>))],
                   Some(cid), NoError)

\* the teacher is not looked up
add_course_unchecked(m, name, teacher_id) ==
    LET g == gen_id(m)
        cid == g.nid
    IN Result([g.mgr EXCEPT !.courses = Put(g.mgr.courses, cid, Course(cid, name, teacher_id, <<>>))],
              Some(cid), NoError)

add_course(m, name, teacher_id) ==
    IF teacher_id # None /\ ~HasKey(m.teachers, teacher_id[1])
    THEN Result(m, None, TeacherNotFound)
    ELSE LET g == gen_id(m)
             cid == g.nid
         IN Result([g.mgr EXCEPT !.courses = Put(g.mgr.courses, cid, Course(cid, name, teacher_id, <<>>))],
                   Some(cid), NoError)

\* no membership test before the append
enroll_always_append(m, student_id, course_id) ==
    IF ~HasKey(m.students, student_id)
    THEN Result(m, None, StudentNotFound)
    ELSE IF ~HasKey(m.courses, course_id)
    THEN Result(m, None, CourseNotFound)
    ELSE LET course == Get(m.courses, course_id)
         IN Result([m EXCEPT !.courses =
                       Put(m.courses, course_id,
                           [course EXCEPT !.students = Append(course.students, student_id)])],
                   None, NoError)

\* the student is looked up only after the append
enroll_append_first(m, student_id, course_id) ==
    IF ~HasKey(m.courses, course_id)
    THEN Result(m, None, CourseNotFound)
    ELSE LET course == Get(m.courses, course_id)
             m1 == IF \E i \in DOMAIN course.students : course.students[i] = student_id
                   THEN m
                   ELSE [m EXCEPT !.courses =
                            Put(m.courses, course_id,
                                [course EXCEPT !.students = Append(course.students, student_id)])]
         IN IF ~HasKey(m.students, student_id)
            THEN Result(m1, None, StudentNotFound)
            ELSE Result(m1, None, NoError)

\* the new student goes first (insert(0, ...)) instead of last
enroll_prepend(m, student_id, course_id) ==
    IF ~HasKey(m.students, student_id)
    THEN Result(m, None, StudentNotFound)
    ELSE IF ~HasKey(m.courses, course_id)
    THEN Result(m, None, CourseNotFound)
    ELSE LET course == Get(m.courses, course_id)
         IN IF \E i \in DOMAIN course.students : course.students[i] = student_id
            THEN Result(m, None, NoError)
            ELSE Result([m EXCEPT !.courses =
                            Put(m.courses, course_id,
                                [course EXCEPT !.students = <<student_id>> \o course.students])],
                        None, NoError)

enroll(m, student_id, course_id) ==
    IF ~HasKey(m.students, student_id)
    THEN Result(m, None, StudentNotFound)
    ELSE IF ~HasKey(m.courses, course_id)
    THEN Result(m, None, CourseNotFound)
    ELSE LET course == Get(m.courses, course_id)
         IN IF \E i \in DOMAIN course.students : course.students[i] = student_id
            THEN Result(m, None, NoError)
            ELSE Result([m EXCEPT !.courses =
                            Put(m.courses, course_id,
                                [course EXCEPT !.students = Append(course.students, student_id)])],
                        None, NoError)

----------------------------------------------------------------------------
(* JSON values, as json.load returns them and json.dump writes them; the   *)
(* dict that to_dict returns is the object json.dump writes for it         *)

JInt(n) == [t |-> "int", n |-> n]
JStr(s) == [t |-> "str", s |-> s]
JNull == [t |-> "null"]
JList(xs) == [t |-> "list", xs |-> xs]
\* m: the object's members, entries [k, v] in document order, keys distinct
JObj(m) == [t |-> "obj", m |-> m]

DigitChars == <<"0", "1", "2", "3", "4", "5", "6", "7", "8", "9">>

IsDigit(c) == \E d \in DOMAIN DigitChars : DigitChars[d] = c

DigitVal(c) == (CHOOSE d \in DOMAIN DigitChars : DigitChars[d] = c) - 1

RECURSIVE NatToStr(_)
NatToStr(n) ==
    IF n < 10 THEN <<DigitChars[n + 1]>>
    ELSE Append(NatToStr(n \div 10), DigitChars[(n % 10) + 1])

\* json.dump writes an int key k of a dict as the string str(k)
StrOfInt(n) == IF n < 0 THEN <<"-">> \o NatToStr(-n) ELSE NatToStr(n)

RECURSIVE DigitsToNat(_)
DigitsToNat(s) ==
    IF s = <<>> THEN 0
    ELSE DigitsToNat(SubSeq(s, 1, Len(s) - 1)) * 10 + DigitVal(s[Len(s)])

\* int(k) of a string over digits, signs and letters: an optional sign and at
\* least one digit (leading zeros allowed), anything else is a ValueError
IntOfStr(s) ==
    LET signed == s # <<>> /\ s[1] \in {"+", "-"}
        body == IF signed THEN Tail(s) ELSE s
        ok == body # <<>> /\ \A i \in DOMAIN body : IsDigit(body[i])
    IN [ok |-> ok,
        n |-> IF ~ok THEN 0
              ELSE IF signed /\ s[1] = "-" THEN 0 - DigitsToNat(body)
              ELSE DigitsToNat(body)]

\* to_dict (dataclasses.asdict) of each dataclass, as json.dump writes it
StudentToDict(s) ==
    JObj(<<[k |-> "id", v |-> JInt(s.id)], [k |-> "name", v |-> JStr(s.name)],
           [k |-> "age", v |-> JInt(s.age)]>>)

TeacherToDict(t) ==
    JObj(<<[k |-> "id", v |-> JInt(t.id)], [k |-> "name", v |-> JStr(t.name)],
           [k |-> "subject", v |-> JStr(t.subject)]>>)

\* the enrollment list is written last-enrolled first
CourseToDict_reversed(c) ==
    JObj(<<[k |-> "id", v |-> JInt(c.id)], [k |-> "name", v |-> JStr(c.name)],
           [k |-> "teacher_id",
            v |-> IF c.teacher_id = None THEN JNull ELSE JInt(c.teacher_id[1])],
           [k |-> "students",
            v |-> JList([i \in DOMAIN c.students |->
                           JInt(c.students[Len(c.students) + 1 - i])])]>>)

CourseToDict(c) ==
    JObj(<<[k |-> "id", v |-> JInt(c.id)], [k |-> "name", v |-> JStr(c.name)],
           [k |-> "teacher_id",
            v |-> IF c.teacher_id = None THEN JNull ELSE JInt(c.teacher_id[1])],
           [k |-> "students",
            v |-> JList([i \in DOMAIN c.students |-> JInt(c.students[i])])]>>)

\* the '_next_id' member is left out of data
Dump_no_counter(m) ==
    JObj(<<[k |-> "students",
            v |-> JObj([i \in DOMAIN m.students |->
                          [k |-> StrOfInt(m.students[i].k),
                           v |-> StudentToDict(m.students[i].v)]])],
           [k |-> "teachers",
            v |-> JObj([i \in DOMAIN m.teachers |->
                          [k |-> StrOfInt(m.teachers[i].k),
                           v |-> TeacherToDict(m.teachers[i].v)]])],
           [k |-> "courses",
            v |-> JObj([i \in DOMAIN m.courses |->
                          [k |-> StrOfInt(m.courses[i].k),
                           v |-> CourseToDict(m.courses[i].v)]])]>>)

\* the teachers' list is built from self.students
list_teachers_of_students(m) ==
    Result(m, [i \in DOMAIN m.students |-> StudentToDict(m.students[i].v)], NoError)

\* [x.to_dict() for x in self.<collection>.values()]
list_students(m) ==
    Result(m, [i \in DOMAIN m.students |-> StudentToDict(m.students[i].v)], NoError)

list_teachers(m) ==
    Result(m, [i \in DOMAIN m.teachers |-> TeacherToDict(m.teachers[i].v)], NoError)

list_courses(m) ==
    Result(m, [i \in DOMAIN m.courses |-> CourseToDict(m.courses[i].v)], NoError)

\* The document save() writes: the file holds it whatever it held before
Dump(m) ==
    JObj(<<[k |-> "students",
            v |-> JObj([i \in DOMAIN m.students |->
                          [k |-> StrOfInt(m.students[i].k),
                           v |-> StudentToDict(m.students[i].v)]])],
           [k |-> "teachers",
            v |-> JObj([i \in DOMAIN m.teachers |->
                          [k |-> StrOfInt(m.teachers[i].k),
                           v |-> TeacherToDict(m.teachers[i].v)]])],
           [k |-> "courses",
            v |-> JObj([i \in DOMAIN m.courses |->
                          [k |-> StrOfInt(m.courses[i].k),
                           v |-> CourseToDict(m.courses[i].v)]])],
           [k |-> "_next_id", v |-> JInt(m.next_id)]>>)

JsonFile(doc) == [kind |-> "json", doc |-> doc]

save(m) == JsonFile(Dump(m))

\* Student(**v), Teacher(**v), Course(**v): a TypeError unless v is an object
\* whose member names are exactly the dataclass's fields; the values are
\* stored unchecked (the documents of this model hold values of the field's type)
StudentOf(v) ==
    IF v.t = "obj" /\ Keys(v.m) = {"id", "name", "age"}
    THEN [ok |-> TRUE,
          v |-> Student(Get(v.m, "id").n, Get(v.m, "name").s, Get(v.m, "age").n)]
    ELSE [ok |-> FALSE, v |-> Student(0, "", 0)]

TeacherOf(v) ==
    IF v.t = "obj" /\ Keys(v.m) = {"id", "name", "subject"}
    THEN [ok |-> TRUE,
          v |-> Teacher(Get(v.m, "id").n, Get(v.m, "name").s, Get(v.m, "subject").s)]
    ELSE [ok |-> FALSE, v |-> Teacher(0, "", "")]

CourseOf(v) ==
    IF v.t = "obj" /\ Keys(v.m) = {"id", "name", "teacher_id", "students"}
    THEN LET tj == Get(v.m, "teacher_id")
             sj == Get(v.m, "students")
         IN [ok |-> TRUE,
             v |-> Course(Get(v.m, "id").n, Get(v.m, "name").s,
                          IF tj.t = "null" THEN None ELSE Some(tj.n),
                          [i \in DOMAIN sj.xs |-> sj.xs[i].n])]
    ELSE [ok |-> FALSE, v |-> Course(0, "", None, <<>>)]

\* the dict the comprehension has built from the first n members
RECURSIVE BuildDict(_, _, _)
BuildDict(items, vals, n) ==
    IF n = 0 THEN <<>>
    ELSE Put(BuildDict(items, vals, n - 1), IntOfStr(items[n].k).n, vals[n].v)

\* the dataclass built for a member of the collection called name
RecordOf(name, v) ==
    CASE name = "students" -> StudentOf(v)
      [] name = "teachers" -> TeacherOf(v)
      [] name = "courses" -> CourseOf(v)

\* {int(k): Record(**v) for k, v in data.get(name, {}).items()}
Comprehension(data, name) ==
    LET coll == IF HasKey(data.m, name) THEN Get(data.m, name) ELSE JObj(<<>>)
    IN IF coll.t # "obj" THEN [err |-> "AttributeError", d |-> <<>>]
       ELSE LET items == coll.m
                vals == [i \in DOMAIN items |-> RecordOf(name, items[i].v)]
                bad == {i \in DOMAIN items : ~IntOfStr(items[i].k).ok \/ ~vals[i].ok}
            IN IF bad # {}
               THEN LET i == CHOOSE j \in bad : \A j2 \in bad : j <= j2
                    IN [err |-> IF ~IntOfStr(items[i].k).ok THEN "ValueError"
                                ELSE "TypeError",
                        d |-> <<>>]
               ELSE [err |-> NoError, d |-> BuildDict(items, vals, Len(items))]

Max(S) == CHOOSE x \in S : \A y \in S : y <= x

\* the counter is left as __init__ set it
LoadedNextId_unrestored(data, m) == m.next_id

\* the maximum is taken over the students' ids alone
LoadedNextId_students_only(data, m) ==
    IF HasKey(data.m, "_next_id") THEN Get(data.m, "_next_id").n
    ELSE Max(Keys(m.students) \cup {0}) + 1

\* data.get('_next_id', max(keys + [0]) + 1)
LoadedNextId(data, m) ==
    IF HasKey(data.m, "_next_id") THEN Get(data.m, "_next_id").n
    ELSE Max(Keys(m.students) \cup Keys(m.teachers) \cup Keys(m.courses) \cup {0}) + 1

\* no os.path.exists test, and open() outside the try
load_missing_raises(m, f) ==
    IF f.kind = "absent" THEN Result(m, None, "FileNotFoundError")
    ELSE IF f.kind = "garbage" THEN Result(m, None, NoError)
    ELSE LET data == f.doc
         IN IF data.t # "obj" THEN Result(m, None, "AttributeError")
            ELSE LET s == Comprehension(data, "students")
                     m1 == [m EXCEPT !.students = s.d]
                     t == Comprehension(data, "teachers")
                     m2 == [m1 EXCEPT !.teachers = t.d]
                     c == Comprehension(data, "courses")
                     m3 == [m2 EXCEPT !.courses = c.d]
                 IN IF s.err # NoError THEN Result(m, None, s.err)
                    ELSE IF t.err # NoError THEN Result(m1, None, t.err)
                    ELSE IF c.err # NoError THEN Result(m2, None, c.err)
                    ELSE Result([m3 EXCEPT !.next_id = LoadedNextId(data, m3)],
                                None, NoError)

load(m, f) ==
    IF f.kind = "absent" THEN Result(m, None, NoError)
    ELSE IF f.kind = "garbage" THEN Result(m, None, NoError)
    ELSE LET data == f.doc
         IN IF data.t # "obj" THEN Result(m, None, "AttributeError")
            ELSE LET s == Comprehension(data, "students")
                     m1 == [m EXCEPT !.students = s.d]
                     t == Comprehension(data, "teachers")
                     m2 == [m1 EXCEPT !.teachers = t.d]
                     c == Comprehension(data, "courses")
                     m3 == [m2 EXCEPT !.courses = c.d]
                 IN IF s.err # NoError THEN Result(m, None, s.err)
                    ELSE IF t.err # NoError THEN Result(m1, None, t.err)
                    ELSE IF c.err # NoError THEN Result(m2, None, c.err)
                    ELSE Result([m3 EXCEPT !.next_id = LoadedNextId(data, m3)],
                                None, NoError)

\* SchoolManager(filename): __init__ then load()
construct(f) == load(EmptyMgr, f)

----------------------------------------------------------------------------
(* State machine: one registry at a time over one file.  last is the last  *)
(* call and the exception it raised; returned, the ids the creates of the  *)
(* current registry returned, in order; origin, what the file was when the *)
(* current registry was constructed; persisted, the ids returned before    *)
(* some save(); prior, persisted as it was at the last construction;       *)
(* enroll_log, the pairs <<student, course>> of the current registry's     *)
(* successful enroll calls, each at its first call; pc, where the process  *)
(* is ("menu": a registry is up and the next call or menu choice is        *)
(* awaited; "exited"; "crashed": an exception left run_cli); out, what the *)
(* last menu choice printed.                                               *)

Mgr == [students |-> students, teachers |-> teachers, courses |-> courses,
        next_id |-> next_id]

SetMgr(m) ==
    /\ students' = m.students
    /\ teachers' = m.teachers
    /\ courses' = m.courses
    /\ next_id' = m.next_id

NoFile == [kind |-> "absent", doc |-> JNull]
Garbage == [kind |-> "garbage", doc |-> JNull]

Call(op, err) == [op |-> op, err |-> err]

\* a construction that raised leaves no registry to call
Alive == ~(last.op = "init" /\ last.err # NoError)

ConstructedOn(f) ==
    LET r == construct(f)
    IN /\ students = r.mgr.students
       /\ teachers = r.mgr.teachers
       /\ courses = r.mgr.courses
       /\ next_id = r.mgr.next_id
       /\ file = f
       /\ last = Call("init", r.err)
       /\ returned = <<>>
       /\ persisted = {}
       /\ prior = {}
       /\ origin = f.kind
       /\ enroll_log = <<>>
       /\ pc = "menu"
       /\ out = <<>>

Init == ConstructedOn(NoFile)

\* a registry call that is not save(): r is what the operation returns
Apply(op, r) ==
    /\ SetMgr(r.mgr)
    /\ last' = Call(op, r.err)
    /\ returned' = IF r.ret # None THEN Append(returned, r.ret[1]) ELSE returned
    /\ UNCHANGED <<file, persisted, prior, origin, pc, out>>

Logged(log, s, c, err) ==
    IF err = NoError /\ <<s, c>> \notin Range(log) THEN Append(log, <<s, c>>) ELSE log

AddStudent ==
    /\ Alive /\ next_id <= MaxId
    /\ \E in \in StudentInputs : Apply("add_student", add_student(Mgr, in[1], in[2]))
    /\ UNCHANGED enroll_log

AddTeacher ==
    /\ Alive /\ next_id <= MaxId
    /\ \E in \in TeacherInputs : Apply("add_teacher", add_teacher(Mgr, in[1], in[2]))
    /\ UNCHANGED enroll_log

\* a call that raises allocates nothing and is taken at any counter value
AddCourse ==
    /\ Alive
    /\ \E name \in CourseNames, t \in TeacherArgs :
          LET r == add_course(Mgr, name, t)
          IN /\ next_id <= MaxId \/ r.err # NoError
             /\ Apply("add_course", r)
    /\ UNCHANGED enroll_log

Enroll ==
    /\ Alive
    /\ \E s \in IdArgs, c \in IdArgs :
          LET r == enroll(Mgr, s, c)
          IN /\ Apply("enroll", r)
             /\ enroll_log' = Logged(enroll_log, s, c, r.err)

Save ==
    /\ Alive
    /\ file' = save(Mgr)
    /\ last' = Call("save", NoError)
    /\ persisted' = persisted \cup Range(returned)
    /\ UNCHANGED <<students, teachers, courses, next_id, returned, prior, origin,
                   enroll_log, pc, out>>

\* the registry is dropped and a fresh one constructed on the same file
Reload ==
    LET r == construct(file)
    IN /\ SetMgr(r.mgr)
       /\ last' = Call("init", r.err)
       /\ returned' = <<>>
       /\ prior' = persisted
       /\ origin' = file.kind
       /\ enroll_log' = <<>>
       /\ UNCHANGED <<file, persisted, pc, out>>

Next == AddStudent \/ AddTeacher \/ AddCourse \/ Enroll \/ Save \/ Reload

Spec == Init /\ [][Next]_vars

----------------------------------------------------------------------------
(* Registries constructed on a file that something else wrote *)

AnnDict == StudentToDict(Student(1, "Ann", 20))

CounterMember(n) == [k |-> "_next_id", v |-> JInt(n)]

StudentsMember(key, rec) ==
    [k |-> "students", v |-> JObj(<<[k |-> key, v |-> rec]>>)]

\* valid documents, as save() writes them
EmptyDoc == Dump(EmptyMgr)
OneStudentDoc == Dump(add_student(EmptyMgr, "Ann", 20).mgr)

\* valid JSON that is not the persisted format
TopLevelListDoc == JList(<<>>)
CollectionListDoc == JObj(<<[k |-> "students", v |-> JList(<<>>)], CounterMember(1)>>)
MissingFieldDoc ==
    JObj(<<StudentsMember(StrOfInt(1),
                          JObj(<<[k |-> "id", v |-> JInt(1)],
                                 [k |-> "name", v |-> JStr("Ann")]>>)),
           CounterMember(2)>>)
ExtraFieldDoc ==
    JObj(<<StudentsMember(StrOfInt(1),
                          JObj(AnnDict.m \o <<[k |-> "email", v |-> JStr("")]>>)),
           CounterMember(2)>>)
BadKeyDoc == JObj(<<StudentsMember(<<"x">>, AnnDict), CounterMember(2)>>)

MismatchDocs ==
    {TopLevelListDoc, CollectionListDoc, MissingFieldDoc, ExtraFieldDoc, BadKeyDoc}

\* files that exist and fail to parse as the persisted format
UnparsableFiles == {Garbage} \cup {JsonFile(d) : d \in MismatchDocs}

\* documents without the _next_id member: student 1 and teacher 2, and {}
NoCounterDoc ==
    JObj(<<[k |-> "students",
            v |-> JObj(<<[k |-> StrOfInt(1), v |-> AnnDict]>>)],
           [k |-> "teachers",
            v |-> JObj(<<[k |-> StrOfInt(2),
                          v |-> TeacherToDict(Teacher(2, "Bob", "Math"))]>>)]>>)
NoCounterEmptyDoc == JObj(<<>>)

InitFiles ==
    {NoFile, JsonFile(EmptyDoc), JsonFile(OneStudentDoc), JsonFile(NoCounterDoc),
     JsonFile(NoCounterEmptyDoc)} \cup UnparsableFiles

InitLoad == \E f \in InitFiles : ConstructedOn(f)

SpecLoad == InitLoad /\ [][Next]_vars

----------------------------------------------------------------------------
(* run_cli: the menu loop over one registry.  A step is one pass of the    *)
(* loop: the choice read, its inputs read and parsed, the registry called, *)
(* the lines printed.  Typed text is a sequence of characters.  The        *)
(* history variables returned, persisted, prior, origin and enroll_log     *)
(* belong to the registry-level specifications and are not kept here.      *)

\* an entry int() rejects
BadInt == <<"x">>

\* what the user may type at a prompt for the integer n: n, or a rejected
\* entry and then n
IntEntries(n) == {<<StrOfInt(n)>>, <<BadInt, StrOfInt(n)>>}

\* what the user may type at the two prompts of choice 4: both ids at once,
\* or a rejected entry before each
EnrollEntries(s, c) ==
    {<<<<StrOfInt(s)>>, <<StrOfInt(c)>>>>,
     <<<<BadInt, StrOfInt(s)>>, <<BadInt, StrOfInt(c)>>>>}

\* what the user may type at 'Teacher id (or leave blank)'
TeacherEntries == {<<>>, BadInt} \cup {StrOfInt(t) : t \in IdArgs}

Line(text) == JStr(text)

\* _prompt_int on the entries typed, the last of which parses
RECURSIVE prompt_int(_)
prompt_int(entries) ==
    LET p == IntOfStr(entries[1])
    IN IF p.ok THEN [val |-> p.n, out |-> <<>>]
       ELSE LET rest == prompt_int(Tail(entries))
            IN [val |-> rest.val,
                out |-> <<Line("Please enter a valid integer.")>> \o rest.out]

\* one pass of the loop that returns to the menu
Pass(choice, r, printed) ==
    /\ SetMgr(r.mgr)
    /\ last' = Call(choice, r.err)
    /\ out' = printed
    /\ UNCHANGED <<file, pc, returned, persisted, prior, origin, enroll_log>>

CliAddStudent ==
    /\ pc = "menu" /\ next_id <= MaxId
    /\ \E in \in StudentInputs : \E typed \in IntEntries(in[2]) :
          LET age == prompt_int(typed)
              r == add_student(Mgr, in[1], age.val)
          IN Pass("1", r, age.out \o <<Line("Added student id"), JInt(r.ret[1])>>)

CliAddTeacher ==
    /\ pc = "menu" /\ next_id <= MaxId
    /\ \E in \in TeacherInputs :
          LET r == add_teacher(Mgr, in[1], in[2])
          IN Pass("2", r, <<Line("Added teacher id"), JInt(r.ret[1])>>)

\* int(tid_input) is outside the try: a ValueError there leaves run_cli
CliAddCourse ==
    /\ pc = "menu"
    /\ \E name \in CourseNames, tid_input \in TeacherEntries :
          IF tid_input # <<>> /\ ~IntOfStr(tid_input).ok
          THEN /\ pc' = "crashed"
               /\ last' = Call("3", "ValueError")
               /\ out' = <<>>
               /\ UNCHANGED <<students, teachers, courses, next_id, file, returned,
                              persisted, prior, origin, enroll_log>>
          ELSE LET tid == IF tid_input = <<>> THEN None
                          ELSE Some(IntOfStr(tid_input).n)
                   r == add_course(Mgr, name, tid)
               IN /\ next_id <= MaxId \/ r.err # NoError
                  /\ Pass("3", r,
                          IF r.err = NoError
                          THEN <<Line("Added course id"), JInt(r.ret[1])>>
                          ELSE <<Line("Error:"), Line(r.err)>>)

CliEnroll ==
    /\ pc = "menu"
    /\ \E s \in IdArgs, c \in IdArgs : \E typed \in EnrollEntries(s, c) :
          LET sid == prompt_int(typed[1])
              cid == prompt_int(typed[2])
              r == enroll(Mgr, sid.val, cid.val)
          IN Pass("4", r,
                  sid.out \o cid.out \o
                  (IF r.err = NoError THEN <<Line("Enrolled successfully")>>
                   ELSE <<Line("Error:"), Line(r.err)>>))

CliListStudents ==
    /\ pc = "menu"
    /\ LET r == list_students(Mgr) IN Pass("5", r, r.ret)

CliListTeachers ==
    /\ pc = "menu"
    /\ LET r == list_teachers(Mgr) IN Pass("6", r, r.ret)

CliListCourses ==
    /\ pc = "menu"
    /\ LET r == list_courses(Mgr) IN Pass("7", r, r.ret)

CliSave ==
    /\ pc = "menu"
    /\ file' = save(Mgr)
    /\ last' = Call("8", NoError)
    /\ out' = <<Line("Saved to")>>
    /\ UNCHANGED <<students, teachers, courses, next_id, pc, returned, persisted,
                   prior, origin, enroll_log>>

CliExit ==
    /\ pc = "menu"
    /\ file' = save(Mgr)
    /\ last' = Call("9", NoError)
    /\ out' = <<Line("Bye")>>
    /\ pc' = "exited"
    /\ UNCHANGED <<students, teachers, courses, next_id, returned, persisted,
                   prior, origin, enroll_log>>

CliUnknown ==
    /\ pc = "menu"
    /\ last' = Call("other", NoError)
    /\ out' = <<Line("Unknown option")>>
    /\ UNCHANGED <<students, teachers, courses, next_id, file, pc, returned,
                   persisted, prior, origin, enroll_log>>

\* run_cli is started again after it ended: a fresh registry on the file
CliRestart ==
    /\ pc # "menu"
    /\ LET r == construct(file)
       IN /\ SetMgr(r.mgr)
          /\ last' = Call("init", r.err)
          /\ pc' = IF r.err = NoError THEN "menu" ELSE "crashed"
    /\ out' = <<>>
    /\ UNCHANGED <<file, returned, persisted, prior, origin, enroll_log>>

NextCli ==
    \/ CliAddStudent \/ CliAddTeacher \/ CliAddCourse \/ CliEnroll
    \/ CliListStudents \/ CliListTeachers \/ CliListCourses
    \/ CliSave \/ CliExit \/ CliUnknown \/ CliRestart

SpecCli == Init /\ [][NextCli]_vars

----------------------------------------------------------------------------
(* Claims *)

NoDuplicates(s) == \A i, j \in DOMAIN s : i # j => s[i] # s[j]

\* C1: the ids returned by the add_student / add_teacher / add_course calls
\* of one registry are pairwise different, whatever the kinds of the calls,
\* and no id is a key of two of the three collections.
C1_ReturnedIdsUnique ==
    /\ NoDuplicates(returned)
    /\ Keys(students) \cap Keys(teachers) = {}
    /\ Keys(students) \cap Keys(courses) = {}
    /\ Keys(teachers) \cap Keys(courses) = {}

\* three creates, one of each kind, have returned
C1_Witness ==
    /\ Len(returned) = 3
    /\ Len(students) = 1 /\ Len(teachers) = 1 /\ Len(courses) = 1

\* C2: add_course with a teacher_id that is given and is no key of teachers
\* raises 'Teacher id not found' and leaves the three collections and the
\* counter as they were (no id is consumed).
C2_AddCourseUnknownTeacherNoEffect ==
    \A name \in CourseNames, t \in IdArgs :
        ~HasKey(teachers, t) =>
            add_course(Mgr, name, Some(t)) = Result(Mgr, None, TeacherNotFound)

\* add_course has just failed on a registry that has teachers and courses
C2_Witness ==
    /\ last = Call("add_course", TeacherNotFound)
    /\ teachers # <<>>
    /\ courses # <<>>

\* C3: for an existing student s and an existing course c, enroll(s, c) does
\* not raise, and a second enroll(s, c) does not raise and leaves the
\* registry exactly as the first call left it.
C3_EnrollIdempotent ==
    \A s \in Keys(students), c \in Keys(courses) :
        LET once == enroll(Mgr, s, c)
            twice == enroll(once.mgr, s, c)
        IN /\ once.err = NoError
           /\ twice = Result(once.mgr, None, NoError)

\* enroll has just succeeded and a course holds its student
C3_Witness ==
    /\ last = Call("enroll", NoError)
    /\ \E i \in DOMAIN courses : courses[i].v.students # <<>>

\* C4: enroll with a student_id that is no key of students or a course_id
\* that is no key of courses raises and leaves the registry (every course's
\* enrollment list, the collections, the counter) as it was.
C4_EnrollUnknownNoEffect ==
    \A s \in IdArgs, c \in IdArgs :
        (~HasKey(students, s) \/ ~HasKey(courses, c)) =>
            LET r == enroll(Mgr, s, c)
            IN r.err \in {StudentNotFound, CourseNotFound} /\ r.mgr = Mgr /\ r.ret = None

\* enroll has just failed on a registry that has an enrollment
C4_Witness ==
    /\ last.op = "enroll"
    /\ last.err \in {StudentNotFound, CourseNotFound}
    /\ \E i \in DOMAIN courses : courses[i].v.students # <<>>

\* C5: save() followed by the construction of a fresh registry on the file
\* saved gives, without an error, a registry with the same students,
\* teachers and courses (integer keys, field values, enrollment order) and
\* the same counter.
C5_SaveLoadRoundTrip == construct(save(Mgr)) = Result(Mgr, None, NoError)

\* a registry just constructed on the file a save() wrote, with a course
\* whose two students enrolled against the order of their ids
C5_Witness ==
    /\ last = Call("init", NoError)
    /\ origin = "json"
    /\ file = save(Mgr)
    /\ \E i \in DOMAIN courses :
          /\ Len(courses[i].v.students) = 2
          /\ courses[i].v.students[1] > courses[i].v.students[2]


\* C6: when the file exists and fails to parse (unparsable text, or valid
\* JSON that is not the persisted format: top level not an object, a
\* collection not an object, a record with a missing or an extra field, a
\* non-numeric key), construction raises nothing and the registry is empty
\* with the counter at 1.
C6_UnparsableFileYieldsEmpty ==
    (last.op = "init" /\ file \in UnparsableFiles) =>
        (last.err = NoError /\ Mgr = EmptyMgr)

\* C7: after a save() and the construction of a fresh registry on the saved
\* file, no create returns an id that a create returned before that save.
C7_NoIdReuseAfterReload == Range(returned) \cap prior = {}

\* a registry constructed on a saved file has created an entity, and creates
\* had returned ids before the save
C7_Witness ==
    /\ origin = "json"
    /\ prior # {}
    /\ returned # <<>>

\* C8: on a registry constructed with no file, the k-th successful create
\* (of any kind, failed add_course calls not counted) returns k.
C8_KthCreateReturnsK ==
    origin = "absent" => \A k \in DOMAIN returned : returned[k] = k

\* add_student -> 1, add_teacher -> 2, add_course(teacher 2) -> 3, then an
\* add_course with an unknown teacher has failed
C8_Witness ==
    /\ origin = "absent"
    /\ returned = <<1, 2, 3>>
    /\ Keys(students) = {1} /\ Keys(teachers) = {2} /\ Keys(courses) = {3}
    /\ Get(courses, 3).teacher_id = Some(2)
    /\ last = Call("add_course", TeacherNotFound)

\* C9: constructing a registry where no file exists raises nothing and gives
\* an empty registry, and the first id it allocates is 1.
C9_NoFileYieldsEmpty ==
    origin = "absent" =>
        /\ last.op = "init" => (last.err = NoError /\ Mgr = EmptyMgr)
        /\ returned # <<>> => returned[1] = 1

\* a registry constructed with no file has made its first allocation
C9_Witness ==
    /\ origin = "absent"
    /\ Len(returned) = 1
    /\ last.op \in {"add_student", "add_teacher", "add_course"}

\* the students of the log's pairs for course c, in the order of the log
EnrolledInto(log, c) ==
    LET sel == SelectSeq(log, LAMBDA p : p[2] = c)
    IN [i \in DOMAIN sel |-> sel[i][1]]

\* C10: in a registry that started empty, every course's students sequence
\* holds no id twice and lists the students in the order of their first
\* successful enroll into that course.
C10_EnrollmentOrder ==
    origin = "absent" =>
        \A i \in DOMAIN courses :
            /\ NoDuplicates(courses[i].v.students)
            /\ courses[i].v.students = EnrolledInto(enroll_log, courses[i].k)

\* a course whose two students enrolled against the order of their ids, after
\* an enroll that succeeded
C10_Witness ==
    /\ origin = "absent"
    /\ last = Call("enroll", NoError)
    /\ \E i \in DOMAIN courses :
          /\ Len(courses[i].v.students) = 2
          /\ courses[i].v.students[1] > courses[i].v.students[2]

\* argument values of add_student / add_teacher beyond those the actions pass
AnyNames == {"", "Ann"}
AnyAges == {-1, 0, 20}
AnySubjects == {"", "Math"}

\* C11: add_student and add_teacher raise for no name / age / subject (empty
\* names and negative ages included), return the counter's value, append one
\* record under that id to their own collection, leave its earlier entries
\* and the other two collections as they were, and advance the counter by 1.
C11_AddStudentTeacherFrame ==
    /\ \A name \in AnyNames, age \in AnyAges :
          add_student(Mgr, name, age) =
              Result([Mgr EXCEPT !.students =
                          Append(students, [k |-> next_id, v |-> Student(next_id, name, age)]),
                      !.next_id = next_id + 1],
                     Some(next_id), NoError)
    /\ \A name \in AnyNames, subject \in AnySubjects :
          add_teacher(Mgr, name, subject) =
              Result([Mgr EXCEPT !.teachers =
                          Append(teachers, [k |-> next_id, v |-> Teacher(next_id, name, subject)]),
                      !.next_id = next_id + 1],
                     Some(next_id), NoError)

\* add_teacher has just returned on a registry that holds a student with an
\* empty name and a negative age, and a course
C11_Witness ==
    /\ last = Call("add_teacher", NoError)
    /\ \E i \in DOMAIN students : students[i].v.name = "" /\ students[i].v.age < 0
    /\ courses # <<>>
    /\ teachers # <<>>

\* d holds every entry of c at the same place, with the same value
Extends(d, c) == Len(c) <= Len(d) /\ \A i \in DOMAIN c : d[i] = c[i]

\* C12: during the life of one registry (every step but the construction of
\* a fresh one), each student and each teacher that exists still exists
\* after the step, under the same id and with the same field values.
C12_StudentsTeachersImmutable ==
    [][last'.op # "init" => (Extends(students', students) /\ Extends(teachers', teachers))]_vars

\* a registry with a student and a teacher has gone through add_course and
\* enroll calls
C12_Witness ==
    /\ students # <<>> /\ teachers # <<>>
    /\ last = Call("enroll", NoError)
    /\ \E i \in DOMAIN courses : courses[i].v.students # <<>>

AllIds == Keys(students) \cup Keys(teachers) \cup Keys(courses)

\* the file parses to an object that has no _next_id member
NoCounterFile(f) == f.kind = "json" /\ f.doc.t = "obj" /\ ~HasKey(f.doc.m, "_next_id")

\* C13: right after a registry is constructed on a parsable file without the
\* _next_id member, the counter is 1 if no entity was loaded and otherwise
\* one more than the largest id of the three collections taken together,
\* and each create then returns an id larger than every loaded id.
C13_CounterRecomputed ==
    (last = Call("init", NoError) /\ NoCounterFile(file)) =>
        /\ AllIds = {} => next_id = 1
        /\ AllIds # {} => \E top \in AllIds :
                              (\A i \in AllIds : i <= top) /\ next_id = top + 1
        /\ \A i \in AllIds :
              /\ \A in \in StudentInputs : add_student(Mgr, in[1], in[2]).ret[1] > i
              /\ \A in \in TeacherInputs : add_teacher(Mgr, in[1], in[2]).ret[1] > i
              /\ \A name \in CourseNames : add_course(Mgr, name, None).ret[1] > i

\* a registry constructed on the file holding student 1 and teacher 2 and no
\* counter has made its first create, which returned 3
C13_Witness ==
    /\ NoCounterFile(file)
    /\ origin = "json"
    /\ Keys(students) \cup Keys(teachers) \cup Keys(courses) = {1, 2, 3}
    /\ returned = <<3>>

\* the JSON value the persisted format gives field fld holding x
FieldJson(fld, x) ==
    CASE fld \in {"id", "age"} -> JInt(x)
      [] fld \in {"name", "subject"} -> JStr(x)
      [] fld = "teacher_id" -> IF x = None THEN JNull ELSE JInt(x[1])
      [] fld = "students" -> JList([i \in DOMAIN x |-> JInt(x[i])])

\* obj is an object with one member per entry of d, in d's order, keyed by
\* the decimal string of the entry's id and holding exactly its fields
KeyedById(obj, d) ==
    /\ obj.t = "obj"
    /\ Len(obj.m) = Len(d)
    /\ \A i \in DOMAIN d :
          /\ IntOfStr(obj.m[i].k) = [ok |-> TRUE, n |-> d[i].k]
          /\ obj.m[i].k[1] \notin {"+", "0"}
          /\ obj.m[i].v.t = "obj"
          /\ Keys(obj.m[i].v.m) = DOMAIN d[i].v
          /\ \A fld \in DOMAIN d[i].v :
                Get(obj.m[i].v.m, fld) = FieldJson(fld, d[i].v[fld])

\* f holds the persisted form of registry m and nothing else
Serialized(f, m) ==
    /\ f.kind = "json"
    /\ f.doc.t = "obj"
    /\ Keys(f.doc.m) = {"students", "teachers", "courses", "_next_id"}
    /\ Len(f.doc.m) = 4
    /\ KeyedById(Get(f.doc.m, "students"), m.students)
    /\ KeyedById(Get(f.doc.m, "teachers"), m.teachers)
    /\ KeyedById(Get(f.doc.m, "courses"), m.courses)
    /\ Get(f.doc.m, "_next_id") = JInt(m.next_id)

\* C14: a save() leaves the collections and the counter as they were, and
\* the file then holds the three collections keyed by id and the counter of
\* the registry and nothing of what it held before.
C14_SaveWritesFullState ==
    [][last'.op = "save" => (Mgr' = Mgr /\ Serialized(file', Mgr))]_vars

\* a save() of a registry with a student, a teacher and a course over the
\* file an earlier registry had saved
C14_Witness ==
    /\ last = Call("save", NoError)
    /\ origin = "json"
    /\ prior # {}
    /\ students # <<>> /\ teachers # <<>> /\ courses # <<>>
    /\ returned # <<>>

\* ret holds one record per entry of d, in d's order, with the entry's fields
Records(ret, d) ==
    /\ Len(ret) = Len(d)
    /\ \A i \in DOMAIN d :
          /\ ret[i].t = "obj"
          /\ Keys(ret[i].m) = DOMAIN d[i].v
          /\ \A fld \in DOMAIN d[i].v : Get(ret[i].m, fld) = FieldJson(fld, d[i].v[fld])

\* C15: list_students / list_teachers / list_courses raise nothing, leave
\* the three collections and the counter as they are, and return one record
\* per entity of their collection, in insertion order, with the entity's
\* field values; the menu prints exactly those records.
C15_ListsReadOnly ==
    /\ list_students(Mgr).mgr = Mgr /\ list_students(Mgr).err = NoError
    /\ list_teachers(Mgr).mgr = Mgr /\ list_teachers(Mgr).err = NoError
    /\ list_courses(Mgr).mgr = Mgr /\ list_courses(Mgr).err = NoError
    /\ Records(list_students(Mgr).ret, students)
    /\ Records(list_teachers(Mgr).ret, teachers)
    /\ Records(list_courses(Mgr).ret, courses)
    /\ last.op = "5" => Records(out, students)
    /\ last.op = "6" => Records(out, teachers)
    /\ last.op = "7" => Records(out, courses)

\* the students have just been listed, two of them, one enrolled in a course
C15_Witness ==
    /\ last = Call("5", NoError)
    /\ Len(out) = 2
    /\ \E i \in DOMAIN courses : courses[i].v.students # <<>>

\* C16: the file changes only on menu choice 8 or 9, and whenever the menu
\* loop ends the file has just been written with the registry's state.
C16_SaveOnRequestAndExit ==
    [][/\ file' # file => last'.op \in {"8", "9"}
       /\ (pc = "menu" /\ pc' # "menu") => file' = save(Mgr)]_vars

\* C17: an integer entry that does not parse is asked for again and a
\* validation failure of add_course / enroll is printed, so the loop ends
\* only by choice 9, and a pass that met an exception leaves the registry
\* as it was.
C17_OnlyExitEndsLoop ==
    [][/\ (pc = "menu" /\ pc' # "menu") => (last'.op = "9" /\ pc' = "exited")
       /\ last'.err # NoError => Mgr' = Mgr]_vars

\* C18: every course's teacher_id is None or the id of a teacher of the
\* registry, and every id in a course's students is the id of a student of
\* the registry.
C18_ReferentialIntegrity ==
    \A i \in DOMAIN courses :
        /\ courses[i].v.teacher_id # None => HasKey(teachers, courses[i].v.teacher_id[1])
        /\ \A j \in DOMAIN courses[i].v.students :
              HasKey(students, courses[i].v.students[j])

\* a registry constructed on a saved file holds a course with a teacher and
\* an enrolled student
C18_Witness ==
    /\ origin = "json"
    /\ last.op = "init"
    /\ \E i \in DOMAIN courses :
          courses[i].v.teacher_id # None /\ courses[i].v.students # <<>>

CounterInv ==
    /\ next_id >= 1
    /\ \A i \in AllIds : 1 <= i /\ i < next_id
    /\ \A i \in DOMAIN students : students[i].v.id = students[i].k
    /\ \A i \in DOMAIN teachers : teachers[i].v.id = teachers[i].k
    /\ \A i \in DOMAIN courses : courses[i].v.id = courses[i].k

\* C19: the counter is at least 1 and larger than every stored id, every
\* stored id is at least 1, every entity is stored under its own id, and no
\* step but the construction of a fresh registry lowers the counter.
C19_CounterInvariant ==
    /\ []CounterInv
    /\ [][last'.op # "init" => next_id' >= next_id]_vars

\* a registry constructed on a saved file with entities has created one more
C19_Witness ==
    /\ pc = "menu"
    /\ last.op \in {"1", "2", "3"} /\ last.err = NoError
    /\ file.kind = "json"
    /\ Get(file.doc.m, "students").m # <<>>
    /\ Cardinality(AllIds) = 3

====
